---- MODULE Spec2Model ----
(***************************************************************************)
(* Resolution by refutation, single chain (src/resolution_engine.py).      *)
(*                                                                         *)
(* A Python str is modelled as a sequence of one-character strings, so     *)
(* that parsing, formatting, stripping and sorting are computed on the     *)
(* text as the code computes them.  A dict is a function whose domain is   *)
(* its key set.  A Python exception is an outcome of kind "ValueError" or  *)
(* "RecursionError".                                                       *)
(***************************************************************************)
EXTENDS Naturals, Integers, Sequences, FiniteSets, TLC

(***************************************************************************)
(* Characters.  Alphabet lists the characters of the model in code-point   *)
(* order (space 32, '(' 40, ')' 41, ',' 44, digits, upper case, '_',       *)
(* lower case, the negation sign 172); CharCode is order-isomorphic to     *)
(* Python's ord on them.                                                   *)
(***************************************************************************)
Digits == {"0", "1", "2", "3", "4", "5", "6", "7", "8", "9"}

UpperCase == {"A", "B", "C", "D", "E", "F", "G", "H", "I", "J", "K", "L", "M",
              "N", "O", "P", "Q", "R", "S", "T", "U", "V", "W", "X", "Y", "Z"}

LowerCase == {"a", "b", "c", "d", "e", "f", "g", "h", "i", "j", "k", "l", "m",
              "n", "o", "p", "q", "r", "s", "t", "u", "v", "w", "x", "y", "z"}

Alphabet ==
    << " ", "(", ")", ",",
       "0", "1", "2", "3", "4", "5", "6", "7", "8", "9",
       "A", "B", "C", "D", "E", "F", "G", "H", "I", "J", "K", "L", "M",
       "N", "O", "P", "Q", "R", "S", "T", "U", "V", "W", "X", "Y", "Z",
       "_",
       "a", "b", "c", "d", "e", "f", "g", "h", "i", "j", "k", "l", "m",
       "n", "o", "p", "q", "r", "s", "t", "u", "v", "w", "x", "y", "z",
       "¬" >>

CharCode ==
    [c \in {Alphabet[i] : i \in 1..Len(Alphabet)} |->
        CHOOSE i \in 1..Len(Alphabet) : Alphabet[i] = c]

\* str.__lt__: lexicographic comparison by code point
RECURSIVE StrLess(_, _)
StrLess(s, t) ==
    IF t = <<>> THEN FALSE
    ELSE IF s = <<>> THEN TRUE
    ELSE IF s[1] = t[1] THEN StrLess(Tail(s), Tail(t))
    ELSE CharCode[s[1]] < CharCode[t[1]]

\* sorted(list): insertion of each element of xs into an ordered sequence
RECURSIVE InsertSorted(_, _)
InsertSorted(x, ys) ==
    IF ys = <<>> THEN <<x>>
    ELSE IF StrLess(ys[1], x) \/ ys[1] = x
         THEN <<ys[1]>> \o InsertSorted(x, Tail(ys))
         ELSE <<x>> \o ys

RECURSIVE sorted(_)
sorted(xs) ==
    IF xs = <<>> THEN <<>> ELSE InsertSorted(xs[1], sorted(Tail(xs)))

Range(xs) == {xs[i] : i \in 1..Len(xs)}

\* the lists a set can be turned into by list(set): one per iteration order
RECURSIVE Orderings(_)
Orderings(S) ==
    IF S = {} THEN {<<>>}
    ELSE UNION {{<<e>> \o rest : rest \in Orderings(S \ {e})} : e \in S}

\* str.strip(): leading and trailing white space removed
RECURSIVE lstrip(_)
lstrip(s) ==
    IF s # <<>> /\ s[1] = " " THEN lstrip(Tail(s)) ELSE s

RECURSIVE rstrip(_)
rstrip(s) ==
    IF s # <<>> /\ s[Len(s)] = " " THEN rstrip(SubSeq(s, 1, Len(s) - 1)) ELSE s

strip(s) == rstrip(lstrip(s))

\* str.split(","): the pieces between commas, at least one piece
RECURSIVE SplitFrom(_, _)
SplitFrom(s, piece) ==
    IF s = <<>> THEN <<piece>>
    ELSE IF s[1] = "," THEN <<piece>> \o SplitFrom(Tail(s), <<>>)
    ELSE SplitFrom(Tail(s), Append(piece, s[1]))

split(s) == SplitFrom(s, <<>>)

\* ",".join(args)
RECURSIVE join(_)
join(args) ==
    IF args = <<>> THEN <<>>
    ELSE IF Len(args) = 1 THEN args[1]
    ELSE args[1] \o <<",">> \o join(Tail(args))

\* the length of the longest prefix of s made of \w characters
RECURSIVE WordLen(_)
WordLen(s) ==
    IF s # <<>> /\ s[1] \in (UpperCase \cup LowerCase \cup Digits \cup {"_"})
    THEN 1 + WordLen(Tail(s)) ELSE 0

ValueError == [ok |-> FALSE, neg |-> FALSE, pred |-> <<>>, args |-> <<>>]

\* re.match(r"^([A-Za-z_]\w*)\s*(?:\((.*)\))?$", s) and the argument split
MatchLiteral(neg, s) ==
    IF s = <<>> \/ s[1] \notin (UpperCase \cup LowerCase \cup {"_"})
    THEN ValueError
    ELSE LET n    == WordLen(s)
             pred == SubSeq(s, 1, n)
             rest == lstrip(SubSeq(s, n + 1, Len(s)))
         IN  IF rest = <<>>
             THEN [ok |-> TRUE, neg |-> neg, pred |-> pred, args |-> <<>>]
             ELSE IF Len(rest) >= 2 /\ rest[1] = "(" /\ rest[Len(rest)] = ")"
             THEN LET inner == SubSeq(rest, 2, Len(rest) - 1)
                      parts == split(inner)
                  IN  [ok |-> TRUE, neg |-> neg, pred |-> pred,
                       args |-> IF inner = <<>> THEN <<>>
                                ELSE [i \in 1..Len(parts) |-> strip(parts[i])]]
             ELSE ValueError

parse_literal(lit) ==
    LET s == strip(lit)
    IN  IF s # <<>> /\ s[1] = "¬"
        THEN MatchLiteral(TRUE, strip(Tail(s)))
        ELSE MatchLiteral(FALSE, s)

lit_to_str(neg, pred, args) ==
    (IF neg THEN <<"¬">> ELSE <<>>) \o
    (IF args # <<>> THEN pred \o <<"(">> \o join(args) \o <<")">> ELSE pred)

clausula_to_key(clausula) ==
    sorted([i \in 1..Len(clausula) |-> strip(clausula[i])])

(***************************************************************************)
(* State.  One refutation run (refutacion_cadena), one call of the         *)
(* resolver (resolver_actual_con_base) and one call of the literal unifier *)
(* (unificar_lit) each have their variables; a specification below runs    *)
(* one of them and leaves the others idle.                                 *)
(***************************************************************************)
VARIABLES
    kb,        \* refutacion_cadena: the copied knowledge base
    meta,      \* refutacion_cadena: the goal text
    actual,    \* refutacion_cadena: the current clause
    vistos,    \* refutacion_cadena: canonical keys of the clauses seen
    paso,      \* refutacion_cadena: step counter
    idx,       \* refutacion_cadena: position of the for loop over kb
    pc,        \* refutacion_cadena: control point
    resultado, \* refutacion_cadena: what the run returned or raised
    traza,     \* refutacion_cadena: what verbose prints, step by step
    ractual,   \* resolver_actual_con_base: argument actual
    rbase,     \* resolver_actual_con_base: argument base
    intento,   \* resolver_actual_con_base: the outcome of the call
    lpos,      \* unificar_lit: first literal (neg, pred, args)
    lneg,      \* unificar_lit: second literal (neg, pred, args)
    upos,      \* unificar_lit: position of the for loop over the arguments
    subst,     \* unificar_lit: the substitution threaded through the loop
    upc,       \* unificar_lit: control point
    ures,      \* unificar_lit: what the call returned or raised
    ucalls     \* unificar_lit: the unificar_args calls made, in order

chainVars == <<kb, meta, actual, vistos, paso, idx, pc, resultado, traza>>
resVars   == <<ractual, rbase, intento>>
unifVars  == <<lpos, lneg, upos, subst, upc, ures, ucalls>>
vars      == <<chainVars, resVars, unifVars>>

(***************************************************************************)
(* Bounds of the model.                                                    *)
(***************************************************************************)
\* the depth of recursion after which Python raises RecursionError
RecursionLimit == 4
\* longest argument list given to unificar_lit
MaxArgs == 3
\* longest clause given to resolver_actual_con_base
MaxClauseLen == 2
\* longest generated knowledge base given to refutacion_cadena
MaxKB == 3

(***************************************************************************)
(* Unification.                                                            *)
(***************************************************************************)
EmptySubst == [k \in {} |-> <<>>]

\* subst2 = subst.copy(); subst2[a] = b
Bind(s, a, b) == [k \in DOMAIN s \cup {a} |-> IF k = a THEN b ELSE s[k]]

\* a and a[0].islower()
IsVariable(a) == a # <<>> /\ a[1] \in LowerCase

UOk(s)     == [kind |-> "ok", subst |-> s]
UNone      == [kind |-> "None", subst |-> EmptySubst]
UPending   == [kind |-> "pending", subst |-> EmptySubst]
URecursion == [kind |-> "RecursionError", subst |-> EmptySubst]

RECURSIVE unificar_args_at(_, _, _, _)
unificar_args_at(a, b, s, depth) ==
    IF depth > RecursionLimit THEN URecursion
    ELSE IF a = b THEN UOk(s)
    ELSE IF IsVariable(a)
         THEN IF a \in DOMAIN s
              THEN unificar_args_at(s[a], b, s, depth + 1)
              ELSE UOk(Bind(s, a, b))
    ELSE IF IsVariable(b)
         THEN IF b \in DOMAIN s
              THEN unificar_args_at(a, s[b], s, depth + 1)
              ELSE UOk(Bind(s, b, a))
    ELSE UNone

\* unificar_args without lines 59-65: a variable on the right is not bound
unificar_args_onesided(a, b, s) ==
    IF a = b THEN UOk(s)
    ELSE IF IsVariable(a)
         THEN IF a \in DOMAIN s
              THEN unificar_args_at(s[a], b, s, 1)
              ELSE UOk(Bind(s, a, b))
    ELSE UNone

unificar_args(a, b, s) == unificar_args_at(a, b, s, 0)

\* the for loop of unificar_lit from position i on
RECURSIVE UnifyFrom(_, _, _, _)
UnifyFrom(args1, args2, i, s) ==
    IF i > Len(args1) THEN UOk(s)
    ELSE LET r == unificar_args(args1[i], args2[i], s)
         IN  IF r.kind # "ok" THEN r ELSE UnifyFrom(args1, args2, i + 1, r.subst)

unificar_lit(l1, l2) ==
    IF l1.pred # l2.pred \/ Len(l1.args) # Len(l2.args) THEN UNone
    ELSE UnifyFrom(l1.args, l2.args, 1, EmptySubst)

\* what stands for the text of a literal whose parse raised ValueError
RaisedText == <<"ValueError">>

aplicar_subst_literal(literal, s) ==
    LET p == parse_literal(literal)
    IN  IF ~p.ok THEN RaisedText
        ELSE IF p.args = <<>> THEN lit_to_str(p.neg, p.pred, p.args)
        ELSE lit_to_str(p.neg, p.pred,
                 [i \in 1..Len(p.args) |->
                     IF p.args[i] \in DOMAIN s THEN s[p.args[i]] ELSE p.args[i]])

\* the lists aplicar_subst_clausula can return: the set of the substituted
\* literals, in any iteration order
aplicar_subst_clausula(clausula, s) ==
    Orderings({aplicar_subst_literal(clausula[i], s) : i \in 1..Len(clausula)})

(***************************************************************************)
(* Resolution of the current clause against one clause of the base.        *)
(* resolver_actual_con_base is the set of outcomes the call can have, one  *)
(* for each iteration order of the sets it builds.                         *)
(***************************************************************************)
ROk(res, s, la, lb) ==
    [kind |-> "ok", resolvente |-> res, subst |-> s,
     literal_cancelado |-> <<la, lb>>]

RWithout(k) ==
    [kind |-> k, resolvente |-> <<>>, subst |-> EmptySubst,
     literal_cancelado |-> <<>>]

RNone == RWithout("None")

\* some literal of the clause makes parse_literal raise
Malformed(clausula) ==
    \E i \in 1..Len(clausula) : ~parse_literal(clausula[i]).ok

\* line 132: the concatenation without the two applied literals
Resolvente(c1_sub, c2_sub, la_ap, lb_ap) ==
    SelectSeq(c1_sub \o c2_sub, LAMBDA lit : lit # la_ap /\ lit # lb_ap)

\* lines 135-145 left out: no resolvent is discarded
TautologiaNunca(resolvente) == FALSE

\* lines 135-143: some literal starting with the negation sign has its
\* remainder in the set
Tautologia(resolvente) ==
    LET res_set == Range(resolvente)
    IN  \E lit \in res_set :
            lit # <<>> /\ lit[1] = "¬" /\ Tail(lit) \in res_set

\* line 147 without sorted: list(set(resolvente)) in its iteration order
ResolventeUnsorted(resolvente) == Orderings(Range(resolvente))

\* line 147: sorted(list(set(resolvente)))
ResolventeSorted(resolvente) ==
    {sorted(l) : l \in Orderings(Range(resolvente))}

RECURSIVE ResolveFrom(_, _, _, _)
\* lines 125-147 for the pair (la, lb) unified by s; rest is what the scan
\* of the following pairs yields
ResolvePair(actual_, base, la, lb, s, rest) ==
    IF Malformed(actual_) \/ Malformed(base) THEN {RWithout("ValueError")}
    ELSE LET la_ap == aplicar_subst_literal(la, s)
             lb_ap == aplicar_subst_literal(lb, s)
             cands == {Resolvente(c1_sub, c2_sub, la_ap, lb_ap) :
                          c1_sub \in aplicar_subst_clausula(actual_, s),
                          c2_sub \in aplicar_subst_clausula(base, s)}
         IN  UNION {IF Tautologia(r) THEN rest
                    ELSE {ROk(res, s, la, lb) : res \in ResolventeSorted(r)} :
                    r \in cands}

\* lines 104-148 from the pair (actual[i], base[j]) on
ResolveFrom(actual_, base, i, j) ==
    IF i > Len(actual_) THEN {RNone}
    ELSE LET pa == parse_literal(actual_[i])
         IN  IF ~pa.ok THEN {RWithout("ValueError")}
             ELSE IF j > Len(base) THEN ResolveFrom(actual_, base, i + 1, 1)
             ELSE LET pb == parse_literal(base[j])
                  IN  IF ~pb.ok THEN {RWithout("ValueError")}
                      ELSE IF pa.pred # pb.pred \/ pa.neg = pb.neg
                      THEN ResolveFrom(actual_, base, i, j + 1)
                      ELSE LET u == unificar_lit([pa EXCEPT !.neg = FALSE],
                                                 [pb EXCEPT !.neg = FALSE])
                           IN  IF u.kind = "RecursionError"
                               THEN {RWithout("RecursionError")}
                               ELSE IF u.kind = "None"
                               THEN ResolveFrom(actual_, base, i, j + 1)
                               ELSE ResolvePair(actual_, base, actual_[i],
                                        base[j], u.subst,
                                        ResolveFrom(actual_, base, i, j + 1))

resolver_actual_con_base(actual_, base) == ResolveFrom(actual_, base, 1, 1)

(***************************************************************************)
(* One call of unificar_lit, one argument position per step.               *)
(***************************************************************************)
Terms == {<<"x">>, <<"y">>, <<"A">>, <<"B">>}

ArgLists == UNION {[1..n -> Terms] : n \in 0..MaxArgs}

IdleChain ==
    /\ kb = <<>> /\ meta = <<>> /\ actual = <<>> /\ vistos = {}
    /\ paso = 0 /\ idx = 0 /\ pc = "idle" /\ resultado = "none" /\ traza = <<>>

IdleRes == ractual = <<>> /\ rbase = <<>> /\ intento = RWithout("idle")

IdleUnif ==
    /\ lpos = <<>> /\ lneg = <<>> /\ upos = 0 /\ subst = EmptySubst
    /\ upc = "idle" /\ ures = UPending /\ ucalls = <<>>

UnifInit ==
    /\ lpos \in {[neg |-> FALSE, pred |-> <<"P">>, args |-> a] : a \in ArgLists}
    /\ lneg \in {[neg |-> FALSE, pred |-> p, args |-> a] :
                    p \in {<<"P">>, <<"Q">>}, a \in ArgLists}
    /\ upos = 0 /\ subst = EmptySubst /\ upc = "call" /\ ures = UPending
    /\ ucalls = <<>>
    /\ IdleChain /\ IdleRes

\* lines 74-78: the predicate and arity test, then the empty substitution
UnificarLitEnter ==
    /\ upc = "call"
    /\ IF lpos.pred # lneg.pred \/ Len(lpos.args) # Len(lneg.args)
       THEN /\ upc' = "done" /\ ures' = UNone
            /\ UNCHANGED <<upos, subst>>
       ELSE /\ upc' = "loop" /\ subst' = EmptySubst /\ upos' = 1
            /\ UNCHANGED ures
    /\ UNCHANGED <<lpos, lneg, ucalls, chainVars, resVars>>

\* lines 79-82: one iteration of the loop over zip(args1, args2)
UnificarLitStep ==
    /\ upc = "loop" /\ upos <= Len(lpos.args)
    /\ LET r == unificar_args(lpos.args[upos], lneg.args[upos], subst)
       IN  /\ ucalls' = Append(ucalls, [a |-> lpos.args[upos],
                                        b |-> lneg.args[upos],
                                        s |-> subst, out |-> r])
           /\ IF r.kind = "ok"
              THEN /\ subst' = r.subst /\ upos' = upos + 1
                   /\ UNCHANGED <<upc, ures>>
              ELSE /\ upc' = "done" /\ ures' = r
                   /\ UNCHANGED <<upos, subst>>
    /\ UNCHANGED <<lpos, lneg, chainVars, resVars>>

\* line 83: the loop is over, the substitution is returned
UnificarLitReturn ==
    /\ upc = "loop" /\ upos > Len(lpos.args)
    /\ upc' = "done" /\ ures' = UOk(subst)
    /\ UNCHANGED <<lpos, lneg, upos, subst, ucalls, chainVars, resVars>>

UnifNext == UnificarLitEnter \/ UnificarLitStep \/ UnificarLitReturn

SpecUnif == UnifInit /\ [][UnifNext]_vars

(***************************************************************************)
(* Properties of the unifier, checked under SpecUnif.                      *)
(***************************************************************************)
\* subst.get(t, t)
Lookup(s, t) == IF t \in DOMAIN s THEN s[t] ELSE t

\* the term reached from t by following n bindings of s
RECURSIVE Chase(_, _, _)
Chase(s, t, n) == IF n = 0 THEN t ELSE Chase(s, Lookup(s, t), n - 1)

\* some variable of s leads back to itself: x -> y -> ... -> x
HasCycle(s) ==
    \E v \in DOMAIN s : \E n \in 1..Cardinality(DOMAIN s) : Chase(s, v, n) = v

\* s is empty or one binding, and a and b are equal under it
UnifiesWithAtMostOneBinding(s, a, b) ==
    /\ Cardinality(DOMAIN s) <= 1
    /\ Lookup(s, a) = Lookup(s, b)

\* C5: the first unificar_args call of a run, made with the empty
\* substitution on terms a and b, succeeds exactly when the call with a and b
\* exchanged succeeds; when they succeed each result is empty or a single
\* binding that makes a and b equal, and two different results are the two
\* directions of binding one variable to the other.
C5_UnificationSymmetry ==
    Len(ucalls) >= 1 =>
        LET c   == ucalls[1]
            fwd == c.out
            bwd == unificar_args(c.b, c.a, EmptySubst)
        IN  /\ (fwd.kind = "ok") <=> (bwd.kind = "ok")
            /\ fwd.kind # "RecursionError" /\ bwd.kind # "RecursionError"
            /\ fwd.kind = "ok" =>
                  /\ UnifiesWithAtMostOneBinding(fwd.subst, c.a, c.b)
                  /\ UnifiesWithAtMostOneBinding(bwd.subst, c.a, c.b)
                  /\ fwd.subst # bwd.subst =>
                        /\ IsVariable(c.a) /\ IsVariable(c.b)
                        /\ fwd.subst = Bind(EmptySubst, c.a, c.b)
                        /\ bwd.subst = Bind(EmptySubst, c.b, c.a)

\* a constant on the left was unified with a variable on the right
C5_Witness ==
    /\ Len(ucalls) >= 1
    /\ ucalls[1].a = <<"A">> /\ ucalls[1].b = <<"x">>
    /\ ucalls[1].out = UOk(Bind(EmptySubst, <<"x">>, <<"A">>))

\* C10: unificar_lit returns a substitution or failure and never raises, and
\* no substitution it builds along the way has a binding cycle.
C10_UnifierTerminatesWithoutCycles ==
    /\ ures.kind \in {"pending", "ok", "None"}
    /\ ~HasCycle(subst)

(***************************************************************************)
(* One call of resolver_actual_con_base on a pair of clauses.              *)
(***************************************************************************)
P1(neg, a)    == lit_to_str(neg, <<"P">>, <<a>>)
P2(neg, a, b) == lit_to_str(neg, <<"P">>, <<a, b>>)

LiteralPool ==
    {P1(n, a) : n \in BOOLEAN, a \in {<<"x">>, <<"A">>}}
    \cup {P1(FALSE, <<"B">>),
          P2(TRUE, <<"x">>, <<"y">>), P2(FALSE, <<"y">>, <<"A">>)}

Clauses == UNION {[1..n -> LiteralPool] : n \in 1..MaxClauseLen}

ResInit ==
    /\ ractual \in Clauses /\ rbase \in Clauses
    /\ intento = RWithout("pending")
    /\ IdleChain /\ IdleUnif

ResolverCall ==
    /\ intento.kind = "pending"
    /\ intento' \in resolver_actual_con_base(ractual, rbase)
    /\ UNCHANGED <<ractual, rbase, chainVars, unifVars>>

ResNext == ResolverCall

SpecRes == ResInit /\ [][ResNext]_vars

(***************************************************************************)
(* One run of refutacion_cadena.                                           *)
(***************************************************************************)
\* line 159 left out: the chain starts from the goal itself
neg_meta_sin_negar(m) == m

\* line 159: the negated goal, or the goal without its negation sign
neg_meta(m) ==
    IF ~(m # <<>> /\ m[1] = "¬") THEN <<"¬">> \o m ELSE Tail(m)

Pending == "none"

\* what a step prints on entry (lines 182-184), before any attempt
Paso(clausula) == [actual |-> clausula, intentos |-> <<>>]

\* the trace with one more attempt (lines 190-200) in its last step
ConIntento(t, i, r) ==
    [t EXCEPT ![Len(t)].intentos = Append(@, [idx |-> i, out |-> r])]

\* lines 158-162
Preparar ==
    /\ pc = "start"
    /\ actual' = <<neg_meta(meta)>>
    /\ vistos' = {}
    /\ paso' = 1
    /\ pc' = "etapa"
    /\ UNCHANGED <<kb, meta, idx, resultado, traza, resVars, unifVars>>

\* lines 174-186 without the test of lines 176-179
EtapaSinVistos ==
    /\ pc = "etapa"
    /\ vistos' = vistos \cup {clausula_to_key(actual)}
    /\ idx' = 1 /\ pc' = "for"
    /\ traza' = Append(traza, Paso(actual))
    /\ UNCHANGED <<kb, meta, actual, paso, resultado, resVars, unifVars>>

\* lines 174-186: the test of the clause against vistos, then its insertion
Etapa ==
    /\ pc = "etapa"
    /\ LET key_actual == clausula_to_key(actual)
       IN  IF key_actual \in vistos
           THEN /\ resultado' = "Loop" /\ pc' = "done"
                /\ UNCHANGED <<vistos, idx, traza>>
           ELSE /\ vistos' = vistos \cup {key_actual}
                /\ idx' = 1 /\ pc' = "for"
                /\ traza' = Append(traza, Paso(actual))
                /\ UNCHANGED resultado
    /\ UNCHANGED <<kb, meta, actual, paso, resVars, unifVars>>

\* lines 188-211, the break left out: the scan goes on after a resolution
IntentoSinBreak ==
    /\ pc = "for" /\ idx <= Len(kb)
    /\ \E r \in resolver_actual_con_base(actual, kb[idx]) :
          /\ traza' = ConIntento(traza, idx, r)
          /\ IF r.kind = "None"
             THEN /\ idx' = idx + 1
                  /\ UNCHANGED <<actual, paso, pc, resultado>>
             ELSE IF r.kind # "ok"
             THEN /\ resultado' = r.kind /\ pc' = "done"
                  /\ UNCHANGED <<actual, paso, idx>>
             ELSE IF r.resolvente = <<>>
             THEN /\ resultado' = "Proved" /\ pc' = "done"
                  /\ UNCHANGED <<actual, paso, idx>>
             ELSE /\ actual' = r.resolvente /\ paso' = paso + 1
                  /\ idx' = idx + 1
                  /\ UNCHANGED <<pc, resultado>>
    /\ UNCHANGED <<kb, meta, vistos, resVars, unifVars>>

\* lines 188-211: one iteration of the for loop over the knowledge base
Intento ==
    /\ pc = "for" /\ idx <= Len(kb)
    /\ \E r \in resolver_actual_con_base(actual, kb[idx]) :
          /\ traza' = ConIntento(traza, idx, r)
          /\ IF r.kind = "None"
             THEN /\ idx' = idx + 1
                  /\ UNCHANGED <<actual, paso, pc, resultado>>
             ELSE IF r.kind # "ok"
             THEN /\ resultado' = r.kind /\ pc' = "done"
                  /\ UNCHANGED <<actual, paso, idx>>
             ELSE IF r.resolvente = <<>>
             THEN /\ resultado' = "Proved" /\ pc' = "done"
                  /\ UNCHANGED <<actual, paso, idx>>
             ELSE /\ actual' = r.resolvente /\ paso' = paso + 1
                  /\ pc' = "etapa"
                  /\ UNCHANGED <<idx, resultado>>
    /\ UNCHANGED <<kb, meta, vistos, resVars, unifVars>>

\* lines 213-217: the for loop ended without progress
SinProgreso ==
    /\ pc = "for" /\ idx > Len(kb)
    /\ resultado' = "Stuck" /\ pc' = "done"
    /\ UNCHANGED <<kb, meta, actual, vistos, paso, idx, traza, resVars, unifVars>>

Next == Preparar \/ Etapa \/ Intento \/ SinProgreso

(***************************************************************************)
(* The inputs of the runs: generated knowledge bases over a pool of        *)
(* clauses, and the two scenarios of the example files.                    *)
(***************************************************************************)
L1(neg, p, a) == lit_to_str(neg, <<p>>, <<<<a>>>>)

\* unbalanced parenthesis, as in "Odia(x,"
BadLiteral == <<"Q", "(", "x", ",">>

ClausePool ==
    { <<L1(FALSE, "P", "x"), L1(TRUE, "Q", "x")>>,
      <<L1(FALSE, "Q", "x"), L1(TRUE, "P", "x")>>,
      <<L1(FALSE, "P", "A")>>,
      <<L1(TRUE, "Q", "A"), L1(FALSE, "Q", "B"), L1(FALSE, "P", "B")>>,
      <<L1(FALSE, "P", "x"), L1(TRUE, "P", "x")>>,
      <<BadLiteral>>,
      <<lit_to_str(FALSE, <<"R">>, <<<<"y">>, <<"x">>, <<"A">>>>)>> }

Goals ==
    { L1(FALSE, "P", "A"),
      L1(TRUE, "Q", "A"),
      <<"P", "(", " ", "A", " ", ")">>,
      <<"P", "(", "A">>,
      lit_to_str(FALSE, <<"R">>, <<<<"x">>, <<"y">>, <<"x">>>>) }

Hombre_ == <<"H", "o", "m", "b", "r", "e">>
Pompeyano_ == <<"P", "o", "m", "p", "e", "y", "a", "n", "o">>
Romano_ == <<"R", "o", "m", "a", "n", "o">>
Gobernante_ == <<"G", "o", "b", "e", "r", "n", "a", "n", "t", "e">>
Leal_ == <<"L", "e", "a", "l">>
Odia_ == <<"O", "d", "i", "a">>
IntentaAsesinar_ == <<"I", "n", "t", "e", "n", "t", "a", "A", "s", "e", "s", "i", "n", "a", "r">>
Marco_ == <<"M", "a", "r", "c", "o">>
Cesar_ == <<"C", "e", "s", "a", "r">>

Lit(neg, pred, args) == lit_to_str(neg, pred, args)

\* lines 273-279: the knowledge base of the example file
MarcoKB ==
    << <<Lit(FALSE, Hombre_, <<Marco_>>)>>,
       <<Lit(FALSE, Pompeyano_, <<Marco_>>)>>,
       <<Lit(TRUE, Pompeyano_, <<<<"x">>>>), Lit(FALSE, Romano_, <<<<"x">>>>)>>,
       <<Lit(FALSE, Gobernante_, <<Cesar_>>)>>,
       <<Lit(TRUE, Romano_, <<<<"x">>>>),
         Lit(FALSE, Leal_, <<<<"x">>, Cesar_>>),
         Lit(FALSE, Odia_, <<<<"x">>, Cesar_>>)>>,
       <<Lit(TRUE, Hombre_, <<<<"x">>>>),
         Lit(TRUE, Gobernante_, <<<<"y">>>>),
         Lit(TRUE, IntentaAsesinar_, <<<<"x">>, <<"y">>>>),
         Lit(TRUE, Leal_, <<<<"x">>, <<"y">>>>)>>,
       <<Lit(FALSE, IntentaAsesinar_, <<Marco_, Cesar_>>)>> >>

\* line 286: the goal of the example file
MarcoMeta == Lit(FALSE, Odia_, <<Marco_, Cesar_>>)

HombreKB == << <<Lit(FALSE, Hombre_, <<Marco_>>)>> >>

RomanoMeta == Lit(FALSE, Romano_, <<Marco_>>)

\* line 318: the program does not start a run on an empty knowledge base
GeneratedKBs == UNION {[1..n -> ClausePool] : n \in 1..MaxKB}

Init ==
    /\ \/ kb \in GeneratedKBs /\ meta \in Goals
       \/ kb = MarcoKB /\ meta \in {MarcoMeta, RomanoMeta}
       \/ kb = HombreKB /\ meta = RomanoMeta
    /\ actual = <<>> /\ vistos = {} /\ paso = 0 /\ idx = 0
    /\ pc = "start" /\ resultado = Pending /\ traza = <<>>
    /\ IdleRes /\ IdleUnif

Spec == Init /\ [][Next]_vars

(***************************************************************************)
(* Properties of the resolver, checked under SpecRes.                      *)
(***************************************************************************)
\* two literal texts with the same predicate and arguments, one negated
Complementary(l1, l2) ==
    LET p1 == parse_literal(l1)
        p2 == parse_literal(l2)
    IN  p1.ok /\ p2.ok /\ p1.pred = p2.pred /\ p1.args = p2.args
        /\ p1.neg # p2.neg

\* the set of the literals of a clause under a substitution
Substituted(clausula, s) ==
    {aplicar_subst_literal(clausula[i], s) : i \in 1..Len(clausula)}

\* C2: a resolvent returned by resolver_actual_con_base holds no literal
\* together with its negation.
C2_NoTautologicalResolvent ==
    intento.kind = "ok" =>
        \A l1, l2 \in Range(intento.resolvente) : ~Complementary(l1, l2)

\* the first pair that unifies gives the tautology P(A), ~P(A), which is
\* discarded, and the call returns the resolvent of a later pair
C2_Witness ==
    /\ ractual = <<P1(FALSE, <<"B">>), P1(TRUE, <<"A">>)>>
    /\ rbase = <<P1(TRUE, <<"x">>), P1(FALSE, <<"A">>)>>
    /\ intento.kind = "ok"
    /\ intento.literal_cancelado = <<P1(TRUE, <<"A">>), P1(FALSE, <<"A">>)>>
    /\ intento.resolvente = <<P1(FALSE, <<"B">>), P1(TRUE, <<"x">>)>>

\* C8: the substitution returned with a result makes the two cancelled
\* literals equal but for the negation sign.
C8_CancelledPairBecomesComplementary ==
    intento.kind = "ok" =>
        Complementary(
            aplicar_subst_literal(intento.literal_cancelado[1], intento.subst),
            aplicar_subst_literal(intento.literal_cancelado[2], intento.subst))

\* C9: the resolvent is the substituted current clause without the
\* cancelled literal, joined with the substituted candidate without its
\* cancelled literal; it is empty only when both clauses reduce to the
\* cancelled pair.
C9_ResolventKeepsEveryOtherLiteral ==
    intento.kind = "ok" =>
        LET s     == intento.subst
            la_ap == aplicar_subst_literal(intento.literal_cancelado[1], s)
            lb_ap == aplicar_subst_literal(intento.literal_cancelado[2], s)
        IN  /\ Range(intento.resolvente) =
                  (Substituted(ractual, s) \ {la_ap})
                  \cup (Substituted(rbase, s) \ {lb_ap})
            /\ intento.resolvente = <<>> =>
                  /\ Substituted(ractual, s) = {la_ap}
                  /\ Substituted(rbase, s) = {lb_ap}

(***************************************************************************)
(* Properties of the run, checked under Spec.                              *)
(***************************************************************************)
\* the clauses tried for resolution have pairwise different canonical keys,
\* vistos is the set of those keys, and a run that ended by loop detection
\* ended on a clause whose key an earlier step had, with no attempt for it
NoClauseTriedTwice ==
    /\ \A i, j \in 1..Len(traza) :
          i < j => clausula_to_key(traza[i].actual)
                       # clausula_to_key(traza[j].actual)
    /\ pc # "start" =>
          vistos = {clausula_to_key(traza[i].actual) : i \in 1..Len(traza)}
    /\ pc = "for" => traza[Len(traza)].actual = actual
    /\ (pc = "done" /\ resultado # "Loop") => traza[Len(traza)].actual = actual
    /\ resultado = "Loop" =>
          /\ pc = "done"
          /\ clausula_to_key(actual) \in vistos
          /\ traza[Len(traza)].actual # actual
          /\ traza[Len(traza)].intentos # <<>>

\* C1: a clause that enters a step with the canonical key of a clause of an
\* earlier step ends the run at that step with Loop, and no resolution is
\* attempted for it; so no clause is tried for resolution twice in a run.
C1_LoopDetection ==
    /\ []NoClauseTriedTwice
    /\ [][(pc = "etapa" /\ clausula_to_key(actual) \in vistos) =>
              (pc' = "done" /\ resultado' = "Loop" /\ traza' = traza)]_vars

\* a run ended by loop detection after at least two steps
C1_Witness == resultado = "Loop" /\ Len(traza) >= 2

\* some literal text of the knowledge base or the goal does not parse
MalformedInput ==
    \/ ~parse_literal(meta).ok
    \/ \E i \in 1..Len(kb) : Malformed(kb[i])

\* C3: with a malformed literal in the knowledge base or the goal, no
\* resolution step is performed and none of Proved, Loop, Stuck is reported.
C3_MalformedInputFailsFast ==
    MalformedInput =>
        /\ resultado \notin {"Proved", "Loop", "Stuck"}
        /\ \A i \in 1..Len(traza) :
              \A k \in 1..Len(traza[i].intentos) :
                  traza[i].intentos[k].out.kind # "ok"

\* C4: whatever order the sets are iterated in, the resolver call of the
\* current step has one outcome (result, substitution, cancelled pair and
\* resolvent), so the run and its trace are determined by the knowledge
\* base and the goal.
C4_Determinism ==
    (pc = "for" /\ idx <= Len(kb)) =>
        Cardinality(resolver_actual_con_base(actual, kb[idx])) = 1

\* a call whose substituted clauses and resolvent have several literals
C4_Witness ==
    /\ pc = "for" /\ idx <= Len(kb)
    /\ Len(actual) >= 2 /\ Len(kb[idx]) >= 2
    /\ \E r \in resolver_actual_con_base(actual, kb[idx]) :
          r.kind = "ok" /\ Len(r.resolvente) >= 2

\* C6: in every step the clauses of the knowledge base are tried in order
\* from the first, every attempt before the last found nothing, nothing is
\* tried after an attempt that gave a result, and a non-empty resolvent is
\* the current clause of the next step.
C6_FirstApplicableClause ==
    \A n \in 1..Len(traza) :
        LET ints == traza[n].intentos
        IN  /\ \A k \in 1..Len(ints) :
                  /\ ints[k].idx = k
                  /\ k < Len(ints) => ints[k].out.kind = "None"
                  /\ resolver_actual_con_base(traza[n].actual, kb[k])
                        = {ints[k].out}
            /\ (ints # <<>> /\ ints[Len(ints)].out.kind = "ok"
                /\ ints[Len(ints)].out.resolvente # <<>>) =>
                  IF n < Len(traza)
                  THEN traza[n + 1].actual = ints[Len(ints)].out.resolvente
                  ELSE /\ actual = ints[Len(ints)].out.resolvente
                       /\ pc \in {"etapa", "done"}
            /\ n < Len(traza) =>
                  /\ ints # <<>>
                  /\ ints[Len(ints)].out.kind = "ok"

\* a step passed over two clauses, resolved against the third and the
\* chain went on with the resolvent
C6_Witness ==
    /\ Len(traza) >= 2
    /\ Len(traza[1].intentos) = 3
    /\ traza[2].actual = traza[1].intentos[3].out.resolvente

\* C7: the run on the knowledge base of the example with the goal
\* Odia(Marco,Cesar) ends Proved, and the run on {Hombre(Marco)} with the
\* goal Romano(Marco) ends Stuck in its first step.
C7_Scenarios ==
    /\ (kb = MarcoKB /\ meta = MarcoMeta /\ pc = "done") =>
          /\ resultado = "Proved"
          /\ traza[Len(traza)].intentos[Len(traza[Len(traza)].intentos)]
                 .out.resolvente = <<>>
    /\ (kb = HombreKB /\ meta = RomanoMeta /\ pc = "done") =>
          /\ resultado = "Stuck" /\ paso = 1 /\ Len(traza) = 1

\* the run of the example reached the empty clause in its seventh step
C7_Witness ==
    /\ kb = MarcoKB /\ meta = MarcoMeta
    /\ pc = "done" /\ resultado = "Proved" /\ paso = 7

====
